---- MODULE Spec2Model ----
(***************************************************************************)
(* Autoevaluacion Transparencia Activa (src/app.py): the Streamlit script  *)
(* as a state machine.  One action is one run of the script, triggered by  *)
(* one button.  Session state: idx, answers, it_sc/mat_sc/glob_sc and the  *)
(* keyed form widgets of the item on screen.                               *)
(*                                                                         *)
(* Encodings.  Answers are the strings of the source without accents.      *)
(* Python's None among answers is the string None.  A percentage is an     *)
(* integer number of tenths (87.5 is 875); an optional percentage is a     *)
(* sequence of length 0 (None) or 1.  A missing dictionary entry `prev` is *)
(* the record NoPrev, whose fields are the values the source's             *)
(* `... if prev else None` expressions produce.                            *)
(***************************************************************************)
EXTENDS Integers, Sequences, FiniteSets, TLC

VARIABLES ITEMS, idx, answers, widgets, session_sc, click, msg, doc, probe

vars == <<ITEMS, idx, answers, widgets, session_sc, click, msg, doc, probe>>

\* ------------------------------------------------------------------ bounds
\* Longest list of specific answers of a record given to the scorer alone.
MaxSpec == 3

\* --------------------------------------------------------------- constants
None == "None"
Si == "Si"
No == "No"
NPD == "No es posible determinarlo"
NoAplica == "No aplica"

EscList == <<1, 2, 3, 4, 5>>
OptsSiNo == <<Si, No>>
OptsComp == <<Si, No, NPD>>
Radios == <<Si, No, NoAplica>>

\* mutant: "No es posible determinarlo" counted as half
VAL_GEN_mitad(v) == CASE v = Si -> 100 [] v = No -> 0 [] v = NPD -> 50

VAL_GEN(v) == CASE v = Si -> 100 [] v = No -> 0 [] v = NPD -> 25

ItemR(scenario, gen, spec) == [scenario |-> scenario, gen |-> gen, spec |-> spec]

NoPrev == ItemR(0, <<None, None, None>>, <<>>)

Range(s) == {s[i] : i \in 1..Len(s)}

RECURSIVE SumSeq(_)
SumSeq(s) == IF s = <<>> THEN 0 ELSE Head(s) + SumSeq(Tail(s))

\* ----------------------------------------------------------------- catalog
TOTAL == Len(ITEMS)
ItemIds == 1..TOTAL
ITEM_TO_MAT == [it \in ItemIds |-> ITEMS[it].Materia]
MAT_TO_ITEMS(m) == SelectSeq([it \in ItemIds |-> it], LAMBDA it : ITEMS[it].Materia = m)

RECURSIVE FirstSeen(_, _)
FirstSeen(s, seen) ==
    IF s = <<>> THEN <<>>
    ELSE IF Head(s) \in seen THEN FirstSeen(Tail(s), seen)
         ELSE <<Head(s)>> \o FirstSeen(Tail(s), seen \cup {Head(s)})

ORDER_MAT == FirstSeen([it \in ItemIds |-> ITEMS[it].Materia], {})

\* first numeric weight of the rows of a category, <<>> when there is none
num_first(s) ==
    LET nums == SelectSeq(s, LAMBDA p : p # <<>>)
    IN  IF nums = <<>> THEN <<>> ELSE Head(nums)

MAT_PESO(m) == num_first([k \in 1..Len(MAT_TO_ITEMS(m)) |-> ITEMS[MAT_TO_ITEMS(m)[k]].Peso])

\* number of specific indicators of an item; indicator i of item it has the
\* text <<it, i>>
IND_ESP(it) == ITEMS[it].nEsp

\* ------------------------------------------------------------------ helpers
\* mutant: the stored value is ignored
safe_idx_default(options, value) == 0

safe_idx(options, value) ==
    IF value \in Range(options)
    THEN (CHOOSE i \in 1..Len(options) :
            options[i] = value /\ \A j \in 1..(i - 1) : options[j] # value) - 1
    ELSE 0

\* mutant: the scenario is not looked at
valid_inputs_sin_esc(esc, disp, act, comp) ==
    IF disp = None THEN FALSE
    ELSE IF disp = No THEN TRUE
    ELSE IF act = None THEN FALSE
    ELSE IF act = No THEN TRUE
    ELSE comp # None

valid_inputs(esc, disp, act, comp) ==
    IF esc # 1 THEN TRUE
    ELSE IF disp = None THEN FALSE
    ELSE IF disp = No THEN TRUE
    ELSE IF act = None THEN FALSE
    ELSE IF act = No THEN TRUE
    ELSE comp # None

\* Python's round() to an integer of the exact quotient num/den (den > 0):
\* nearest, a tie to the even neighbour
RoundHalfEven(num, den) ==
    LET q == num \div den
        r == num % den
    IN  IF 2 * r < den THEN q
        ELSE IF 2 * r > den THEN q + 1
        ELSE IF q % 2 = 0 THEN q ELSE q + 1

puntaje_item(r) ==
    IF r.scenario \in {2, 3} THEN <<>>
    ELSE IF r.scenario \in {4, 5} THEN <<0>>
    ELSE LET gen == SelectSeq(r.gen, LAMBDA v : v # None)
             g_vals == [k \in 1..Len(gen) |-> VAL_GEN(gen[k])]
         IN  IF Len(g_vals) < 3 THEN <<>>
             ELSE LET gen_score == CHOOSE g \in Range(g_vals) : \A h \in Range(g_vals) : g <= h
                      esp_apl == SelectSeq(r.spec, LAMBDA v : v # NoAplica)
                      nSi == Len(SelectSeq(esp_apl, LAMBDA v : v = Si))
                      esp_score == IF esp_apl = <<>> THEN 100
                                   ELSE RoundHalfEven(nSi * 100, Len(esp_apl))
                  \* gen_score*0.75 + esp_score*0.25 is exact in binary; in
                  \* tenths it is (15*gen_score + 5*esp_score)/2
                  IN  <<RoundHalfEven(15 * gen_score + 5 * esp_score, 2)>>

\* round(x, 1) of the float quotient of two float sums, num/den in tenths
\* (den > 0); ops are the percentages that were added.  The nearest tenth.
\* When the exact quotient lies halfway between two tenths: if every operand
\* is a multiple of 0.5 and the quotient ends in .25 or .75, all floats are
\* exact and round() takes the even neighbour; otherwise the binary
\* representation error decides, and both neighbours are possible results.
RoundTenth(ops, num, den) ==
    LET q == num \div den
        r == num % den
    IN  IF 2 * r < den THEN {q}
        ELSE IF 2 * r > den THEN {q + 1}
        ELSE IF (\A k \in 1..Len(ops) : ops[k] % 5 = 0) /\ (2 * q + 1) % 5 = 0
             THEN {IF q % 2 = 0 THEN q ELSE q + 1}
             ELSE {q, q + 1}

NaN == [nan |-> TRUE, v |-> 0]
Num(q) == [nan |-> FALSE, v |-> q]

Materias == Range(ORDER_MAT)

item_scores(ans) == [it \in DOMAIN ans |-> puntaje_item(ans[it])]

\* the non-None item scores of a category, in catalog order
mat_nums(item_sc, m) ==
    LET its == SelectSeq(MAT_TO_ITEMS(m),
                         LAMBDA i : i \in DOMAIN item_sc /\ item_sc[i] # <<>>)
    IN  [k \in 1..Len(its) |-> item_sc[its[k]][1]]

mat_choices(item_sc, m) ==
    LET nums == mat_nums(item_sc, m)
    IN  IF nums = <<>> THEN {<<>>}
        ELSE {<<q>> : q \in RoundTenth(nums, SumSeq(nums), Len(nums))}

glob_choices(mat_sc) ==
    LET pesos == SelectSeq(ORDER_MAT, LAMBDA m : MAT_PESO(m) # <<>> /\ mat_sc[m] # <<>>)
        vals == SelectSeq(ORDER_MAT, LAMBDA m : mat_sc[m] # <<>>)
        W == SumSeq([k \in 1..Len(pesos) |-> MAT_PESO(pesos[k])[1]])
        pscores == [k \in 1..Len(pesos) |-> mat_sc[pesos[k]][1]]
        vscores == [k \in 1..Len(vals) |-> mat_sc[vals[k]][1]]
    IN  IF pesos # <<>>
        THEN IF W = 0 THEN {NaN}    \* division by a zero weight sum
             ELSE {Num(q) : q \in RoundTenth(pscores,
                       SumSeq([k \in 1..Len(pesos) |->
                                  pscores[k] * MAT_PESO(pesos[k])[1]]), W)}
        ELSE IF vals # <<>>
             THEN {Num(q) : q \in RoundTenth(vscores, SumSeq(vscores), Len(vals))}
             ELSE {Num(0)}

\* the results _calcular() can return on the store ans
calcular(ans) ==
    LET item_sc == item_scores(ans)
        mats == {f \in [Materias -> UNION {mat_choices(item_sc, m) : m \in Materias}] :
                    \A m \in Materias : f[m] \in mat_choices(item_sc, m)}
    IN  {[it_sc |-> item_sc, mat_sc |-> f, glob_sc |-> g] :
            <<f, g>> \in {<<f2, g2>> \in mats \X (UNION {glob_choices(f3) : f3 \in mats}) :
                            g2 \in glob_choices(f2)}}

\* ------------------------------------------------------------------- form
NoWidgets == [esc |-> 0, disp |-> None, act |-> None, comp |-> None, spec |-> <<>>]

Prev(ans, it) == IF it \in DOMAIN ans THEN ans[it] ELSE NoPrev

\* st.radio: the widget's session value when its key has one, else options[index]
radio(options, index, value) == IF value # None THEN value ELSE options[index + 1]

\* One pass over the form of item it: w holds the values of the keyed
\* widgets that have session state (0, None or a missing position: no state).
\* mutant: the specific indicators are asked in every branch of scenario 1
show_spec_siempre(esc, disp, act, comp) == esc = 1

show_spec(esc, disp, act, comp) == esc = 1 /\ disp = Si /\ act = Si /\ comp # None

form(it, prev, w) ==
    LET esc == IF w.esc # 0 THEN w.esc ELSE EscList[safe_idx(EscList, prev.scenario) + 1]
        disp == IF esc = 1
                THEN radio(OptsSiNo, safe_idx(OptsSiNo, prev.gen[1]), w.disp)
                ELSE None
        act == IF esc = 1 /\ disp = Si
               THEN radio(OptsSiNo, safe_idx(OptsSiNo, prev.gen[2]), w.act)
               ELSE None
        comp == IF esc = 1 /\ disp = Si /\ act = Si
                THEN radio(OptsComp, safe_idx(OptsComp, prev.gen[3]), w.comp)
                ELSE None
        spec_vals == IF show_spec(esc, disp, act, comp)
                     THEN [i \in 1..IND_ESP(it) |->
                             radio(Radios,
                                   IF i <= Len(prev.spec) THEN safe_idx(Radios, prev.spec[i]) ELSE 0,
                                   IF i <= Len(w.spec) THEN w.spec[i] ELSE None)]
                     ELSE <<>>
    IN  [esc |-> esc, disp |-> disp, act |-> act, comp |-> comp, spec |-> spec_vals]

\* What the user can send with a click on the submit button: a choice for
\* every widget on screen, nothing for the others.  A choice for a widget
\* that the run will not draw again is dropped with the widget's key, so
\* such widgets are left as they are.
UserEdits(w) ==
    {u \in {[esc |-> e, disp |-> d, act |-> a, comp |-> c, spec |-> s] :
              e \in Range(EscList),
              d \in (IF w.disp # None THEN Range(OptsSiNo) ELSE {None}),
              a \in (IF w.act # None THEN Range(OptsSiNo) ELSE {None}),
              c \in (IF w.comp # None THEN Range(OptsComp) ELSE {None}),
              s \in [1..Len(w.spec) -> Range(Radios)]} :
        /\ u.esc # 1 => u.disp = w.disp
        /\ (u.esc # 1 \/ u.disp # Si) => u.act = w.act
        /\ (u.esc # 1 \/ u.disp # Si \/ u.act # Si) => (u.comp = w.comp /\ u.spec = w.spec)}

cur == idx + 1

\* ----------------------------------------------------------------- report
tabla_cell(isItem, k, v) ==
    IF v = <<>>
    THEN IF isItem /\ k \in DOMAIN answers /\ answers[k].scenario \in {2, 3}
         THEN [text |-> "No aplica", num |-> <<>>]
         ELSE [text |-> "No se evalua", num |-> <<>>]
    ELSE [text |-> "%.1f", num |-> v]

\* mutant: "No es posible determinarlo" adds no note
infr_item_solo_no(it, ans) ==
    LET a == IF ans.scenario \in {4, 5} THEN <<[tipo |-> "ESC_D", ref |-> ans.scenario]>> ELSE <<>>
        genIdx == SelectSeq(<<1, 2, 3>>, LAMBDA k : ans.gen[k] = No)
        b == [k \in 1..Len(genIdx) |-> [tipo |-> "GEN_DESC", ref |-> genIdx[k]]]
        espIdx == SelectSeq([k \in 1..Len(ans.spec) |-> k],
                            LAMBDA k : ans.spec[k] = No /\ k <= IND_ESP(it))
        c == [k \in 1..Len(espIdx) |-> [tipo |-> "IND_ESP", ref |-> espIdx[k]]]
    IN  a \o b \o c

\* the notes of one stored record, in the order the export handler appends them
infr_item(it, ans) ==
    LET a == IF ans.scenario \in {4, 5} THEN <<[tipo |-> "ESC_D", ref |-> ans.scenario]>> ELSE <<>>
        genIdx == SelectSeq(<<1, 2, 3>>, LAMBDA k : ans.gen[k] \in {No, NPD})
        b == [k \in 1..Len(genIdx) |-> [tipo |-> "GEN_DESC", ref |-> genIdx[k]]]
        espIdx == SelectSeq([k \in 1..Len(ans.spec) |-> k],
                            LAMBDA k : ans.spec[k] = No /\ k <= IND_ESP(it))
        c == [k \in 1..Len(espIdx) |-> [tipo |-> "IND_ESP", ref |-> espIdx[k]]]
    IN  a \o b \o c

infr_all(ans) == [it \in ItemIds |-> IF it \in DOMAIN ans THEN infr_item(it, ans[it]) ELSE <<>>]

export(mat_sc, item_sc, glob, infr) ==
    [glob |-> glob,
     materias |-> [m \in Materias |-> tabla_cell(FALSE, m, mat_sc[m])],
     items |-> [it \in ItemIds |->
                  tabla_cell(TRUE, it, IF it \in DOMAIN item_sc THEN item_sc[it] ELSE <<>>)],
     infr |-> infr]

\* ---------------------------------------------------------------- actions
MsgIncompleto == "Completa los indicadores antes de guardar."
MsgGuardado == "Item guardado"
MsgMetric == "Cumplimiento global"
MsgCalcula == "Calcula primero los resultados."
MsgInforme == "Informe generado."
MsgError == "ZeroDivisionError"

BtnGuardar == "Guardar item"
BtnAnterior == "Anterior"
BtnSiguiente == "Siguiente"
BtnCalcular == "Calcular resultados"
BtnExportar == "Exportar Word"

\* the button of the run and, for the export button, whether both text
\* inputs of the sidebar were non-empty
Click(b, named) == [button |-> b, named |-> named]

\* `if submitted:` on the values the form returned in this run
submitted(ans, it, esc, disp, act, comp, spec_vals) ==
    IF ~valid_inputs(esc, disp, act, comp)
    THEN [answers |-> ans, msg |-> MsgIncompleto]
    ELSE [answers |-> [i \in DOMAIN ans \cup {it} |->
                          IF i = it THEN ItemR(esc, <<disp, act, comp>>, spec_vals)
                          ELSE ans[i]],
          msg |-> MsgGuardado]

\* "Guardar item": the run that follows a click on the form's submit button
Guardar ==
    \E w \in UserEdits(widgets) :
        LET f == form(cur, Prev(answers, cur), w)
            res == submitted(answers, cur, f.esc, f.disp, f.act, f.comp, f.spec)
        IN  /\ widgets' = f
            /\ answers' = res.answers
            /\ msg' = res.msg
            /\ click' = Click(BtnGuardar, FALSE)
            /\ doc' = <<>>
            /\ UNCHANGED <<ITEMS, idx, session_sc, probe>>

\* the rerun after idx changed draws the other item's form; the keys of the
\* item left behind lose their state
Rerun(newidx) ==
    /\ idx' = newidx
    /\ widgets' = form(newidx + 1, Prev(answers, newidx + 1), NoWidgets)
    /\ msg' = ""
    /\ doc' = <<>>
    /\ UNCHANGED <<ITEMS, answers, session_sc, probe>>

Anterior == idx > 0 /\ Rerun(idx - 1) /\ click' = Click(BtnAnterior, FALSE)

Siguiente == idx < TOTAL - 1 /\ Rerun(idx + 1) /\ click' = Click(BtnSiguiente, FALSE)

\* A zero weight sum divides by zero: ZeroDivisionError on Python numbers
\* (the run stops, nothing is stored), nan on numpy numbers.
Calcular ==
    \E res \in calcular(answers), raises \in BOOLEAN :
        /\ raises => res.glob_sc.nan
        /\ IF raises
           THEN session_sc' = session_sc /\ msg' = MsgError
           ELSE session_sc' = <<res>> /\ msg' = MsgMetric
        /\ widgets' = form(cur, Prev(answers, cur), widgets)
        /\ click' = Click(BtnCalcular, FALSE)
        /\ doc' = <<>>
        /\ UNCHANGED <<ITEMS, idx, answers, probe>>

\* mutant: without stored scores the export computes them itself
Exportar_sin_aviso ==
    \E named \in BOOLEAN :
        /\ widgets' = form(cur, Prev(answers, cur), widgets)
        /\ click' = Click(BtnExportar, named)
        /\ IF ~named
           THEN msg' = "" /\ doc' = <<>>
           ELSE LET sc == IF session_sc = <<>>
                          THEN CHOOSE res \in calcular(answers) : TRUE
                          ELSE session_sc[1]
                IN  /\ doc' = <<export(sc.mat_sc, sc.it_sc, sc.glob_sc, infr_all(answers))>>
                    /\ msg' = MsgInforme
        /\ UNCHANGED <<ITEMS, idx, answers, session_sc, probe>>

Exportar ==
    \E named \in BOOLEAN :
        /\ widgets' = form(cur, Prev(answers, cur), widgets)
        /\ click' = Click(BtnExportar, named)
        /\ IF ~named
           THEN msg' = "" /\ doc' = <<>>
           ELSE IF session_sc = <<>>
                THEN msg' = MsgCalcula /\ doc' = <<>>
                ELSE /\ doc' = <<export(session_sc[1].mat_sc, session_sc[1].it_sc,
                                        session_sc[1].glob_sc, infr_all(answers))>>
                     /\ msg' = MsgInforme
        /\ UNCHANGED <<ITEMS, idx, answers, session_sc, probe>>

\* ----------------------------------------------------------------- catalogs
Row(m, p, n) == [Materia |-> m, Peso |-> p, nEsp |-> n]

\* the catalog of the session model: two categories, weights 60 and 40
SessionCatalogs ==
    { <<Row("A", <<60>>, 1), Row("B", <<40>>, 0)>> }

\* the catalogs on which results are computed and exported: weighted,
\* unweighted, zero weights, a weight that is not on the category's first row
ResultCatalogs ==
    { <<Row("A", <<60>>, 2), Row("A", <<60>>, 0), Row("B", <<40>>, 0)>>,
      <<Row("A", <<>>, 1), Row("B", <<>>, 0)>>,
      <<Row("A", <<0>>, 0), Row("B", <<>>, 1)>>,
      <<Row("A", <<>>, 0), Row("A", <<30>>, 0), Row("B", <<>>, 1)>> }

NoProbe == [r |-> NoPrev, score |-> <<>>, done |-> FALSE]

Init ==
    /\ ITEMS \in SessionCatalogs
    /\ idx = 0
    /\ answers = <<>>
    /\ widgets = form(1, NoPrev, NoWidgets)
    /\ session_sc = <<>>
    /\ click = Click("", FALSE)
    /\ msg = ""
    /\ doc = <<>>
    /\ probe = NoProbe

Next == Guardar \/ Anterior \/ Siguiente \/ Calcular \/ Exportar

Spec == Init /\ [][Next]_vars

\* ---------------------------------------------- results on any stored answers
\* every widget state a browser can send for item it
AllWidgets(n) ==
    {[esc |-> e, disp |-> d, act |-> a, comp |-> c, spec |-> s] :
        e \in Range(EscList), d \in Range(OptsSiNo), a \in Range(OptsSiNo),
        c \in Range(OptsComp), s \in [1..n -> Range(Radios)]}

\* the records the save handler can store for an item with n indicators
Saved(it, n) ==
    LET fs == {form(it, NoPrev, w) : w \in AllWidgets(n)}
    IN  {ItemR(f.esc, <<f.disp, f.act, f.comp>>, f.spec) :
            f \in {g \in fs : valid_inputs(g.esc, g.disp, g.act, g.comp)}}

\* the stores a session on the catalog can hold: for each of the items
\* 1..k no entry or a saved record
RECURSIVE StoresUpTo(_)
StoresUpTo(k) ==
    IF k = 0 THEN {<<>>}
    ELSE LET rest == StoresUpTo(k - 1)
         IN  rest \cup {[i \in DOMAIN a \cup {k} |-> IF i = k THEN r ELSE a[i]] :
                          a \in rest, r \in Saved(k, IND_ESP(k))}

Stores == StoresUpTo(TOTAL)

InitResultados ==
    /\ ITEMS \in ResultCatalogs
    /\ idx = 0
    /\ answers \in Stores
    /\ widgets = form(1, Prev(answers, 1), NoWidgets)
    /\ session_sc = <<>>
    /\ click = Click("", FALSE)
    /\ msg = ""
    /\ doc = <<>>
    /\ probe = NoProbe

NextResultados == Calcular \/ Exportar

SpecResultados == InitResultados /\ [][NextResultados]_vars

\* ------------------------------------------------ the scorer on any record
Opciones == {Si, No, NPD, None}

RECURSIVE SeqsUpTo(_, _)
SeqsUpTo(S, n) ==
    IF n = 0 THEN {<<>>}
    ELSE LET shorter == SeqsUpTo(S, n - 1)
         IN  shorter \cup {Append(s, x) : s \in {t \in shorter : Len(t) = n - 1}, x \in S}

Records ==
    {ItemR(e, <<d, a, c>>, s) :
        e \in Range(EscList), d \in Opciones, a \in Opciones, c \in Opciones,
        s \in SeqsUpTo(Range(Radios), MaxSpec)}

InitPuntaje ==
    /\ ITEMS \in SessionCatalogs
    /\ idx = 0
    /\ answers = <<>>
    /\ widgets = form(1, NoPrev, NoWidgets)
    /\ session_sc = <<>>
    /\ click = Click("", FALSE)
    /\ msg = ""
    /\ doc = <<>>
    /\ \E r \in Records : probe = [r |-> r, score |-> <<>>, done |-> FALSE]

Puntuar ==
    /\ ~probe.done
    /\ probe' = [probe EXCEPT !.score = puntaje_item(probe.r), !.done = TRUE]
    /\ UNCHANGED <<ITEMS, idx, answers, widgets, session_sc, click, msg, doc>>

SpecPuntaje == InitPuntaje /\ [][Puntuar]_vars

\* =================================================================== claims
\* the store after a save of record r for item it
Stored(ans, it, r) == [i \in DOMAIN ans \cup {it} |-> IF i = it THEN r ELSE ans[i]]

RECURSIVE SumOver(_, _)
SumOver(S, f) ==
    IF S = {} THEN 0
    ELSE LET x == CHOOSE y \in S : TRUE IN f[x] + SumOver(S \ {x}, f)

\* q is num/den to the nearest unit
Nearest(q, num, den) == (2 * (q * den - num) <= den) /\ (2 * (num - q * den) <= den)

\* ----- C1
GateRef(esc, disp, act, comp) ==
    \/ esc # 1
    \/ esc = 1 /\ disp = No
    \/ disp = Si /\ act = No
    \/ disp = Si /\ act = Si /\ comp # None

C1_Handler ==
    \A esc \in Range(EscList), disp \in {Si, No, None},
       act \in {Si, No, None}, comp \in {Si, No, NPD, None} :
        LET res == submitted(answers, cur, esc, disp, act, comp, <<>>)
        IN  IF GateRef(esc, disp, act, comp)
            THEN /\ res.answers = Stored(answers, cur, ItemR(esc, <<disp, act, comp>>, <<>>))
                 /\ res.msg = MsgGuardado
            ELSE /\ res.answers = answers
                 /\ res.msg = MsgIncompleto

C1_Step ==
    IF click'.button = BtnGuardar
    THEN IF GateRef(widgets'.esc, widgets'.disp, widgets'.act, widgets'.comp)
         THEN /\ answers' = Stored(answers, cur,
                      ItemR(widgets'.esc, <<widgets'.disp, widgets'.act, widgets'.comp>>,
                            widgets'.spec))
              /\ msg' = MsgGuardado
         ELSE /\ answers' = answers
              /\ msg' = MsgIncompleto
    ELSE answers' = answers

\* C1: a submission writes the store exactly when the save gate holds, for
\* the item on screen, on every store and every combination of form values
\* (the null ones included); when the gate fails it only warns and the store
\* is the same; no run other than a submission changes the store.
C1_SaveGate == [](C1_Handler) /\ [][C1_Step]_vars

C1_Witness ==
    /\ click.button = BtnGuardar
    /\ msg = MsgGuardado
    /\ cur = 2
    /\ DOMAIN answers = {1, 2}
    /\ answers[2] = ItemR(1, <<Si, No, None>>, <<>>)

\* ----- C2
\* C2: every stored scenario-1 record has three non-null general answers at
\* scoring time and gets a non-null score.
C2_GuardUnreachable ==
    \A it \in DOMAIN answers :
        answers[it].scenario = 1 =>
            /\ \A k \in 1..3 : answers[it].gen[k] # None
            /\ puntaje_item(answers[it]) # <<>>

\* ----- C3
GlobRef(sc) ==
    LET P == {m \in Materias : MAT_PESO(m) # <<>> /\ sc.mat_sc[m] # <<>>}
        V == {m \in Materias : sc.mat_sc[m] # <<>>}
        g == sc.glob_sc.v
    IN  IF P # {}
        THEN Nearest(g, SumOver(P, [m \in P |-> sc.mat_sc[m][1] * MAT_PESO(m)[1]]),
                        SumOver(P, [m \in P |-> MAT_PESO(m)[1]]))
        ELSE IF V # {}
             THEN Nearest(g, SumOver(V, [m \in V |-> sc.mat_sc[m][1]]), Cardinality(V))
             ELSE g = 0

\* C3: on every catalog with null or non-negative weights and every store,
\* compute-results completes and leaves a numeric global score: the weighted
\* mean, else the unweighted mean, else 0.
C3_GlobalAlways ==
    click.button = BtnCalcular =>
        /\ msg = MsgMetric
        /\ session_sc # <<>>
        /\ ~session_sc[1].glob_sc.nan
        /\ GlobRef(session_sc[1])

\* ----- C4
\* C4: the scores of a generated report are those of a full recompute from
\* the store at the moment of the export.
C4_ReportFresh ==
    doc # <<>> =>
        \E res \in calcular(answers) :
            doc[1] = export(res.mat_sc, res.it_sc, res.glob_sc, infr_all(answers))

\* ----- C5
Count(seq, P(_)) == Cardinality({k \in 1..Len(seq) : P(seq[k])})

SpecificRef(spec, e) ==
    LET n == Count(spec, LAMBDA v : v # NoAplica)
        c == Count(spec, LAMBDA v : v = Si)
    IN  IF n = 0 THEN e = 100 ELSE Nearest(e, 100 * c, n)

GenRef(v) == IF v = Si THEN 100 ELSE IF v = NPD THEN 25 ELSE 0

\* C5: the scorer on every record over the answer enumerations: null for
\* scenario 2 or 3, 0 for scenario 4 or 5, and for scenario 1 with three
\* general answers generalScore*0.75 + specificScore*0.25 to one decimal,
\* with generalScore the minimum of the mapped general answers and
\* specificScore the rounded share of Yes among the applicable answers (100
\* when there is none); the three literal examples; always within 0..100.
C5_ScoreItem ==
    probe.done =>
        LET r == probe.r
            s == probe.score
        IN  /\ r.scenario \in {2, 3} => s = <<>>
            /\ r.scenario \in {4, 5} => s = <<0>>
            /\ (r.scenario = 1 /\ \A k \in 1..3 : r.gen[k] # None) =>
                  /\ s # <<>>
                  /\ \E k \in 1..3, e \in 0..100 :
                        /\ \A j \in 1..3 : GenRef(r.gen[k]) <= GenRef(r.gen[j])
                        /\ SpecificRef(r.spec, e)
                        /\ Nearest(s[1], 15 * GenRef(r.gen[k]) + 5 * e, 2)
            /\ s # <<>> => s[1] \in 0..1000
            /\ r = ItemR(1, <<Si, Si, Si>>, <<>>) => s = <<1000>>
            /\ r = ItemR(1, <<Si, Si, NPD>>, <<>>) => s = <<438>>
            /\ r = ItemR(1, <<Si, Si, Si>>, <<Si, No, NoAplica>>) => s = <<875>>

C5_Witness ==
    /\ probe.done
    /\ probe.r = ItemR(1, <<Si, Si, NPD>>, <<Si, No, NoAplica>>)
    /\ probe.score = <<312>>

\* ----- C6
ScoredItems(sc, m) ==
    {it \in DOMAIN answers :
        /\ ITEM_TO_MAT[it] = m
        /\ answers[it].scenario \notin {2, 3}
        /\ sc.it_sc[it] # <<>>}

\* C6: each category score is the mean, to one decimal, of the non-null
\* scores of its items (null when it has none; unanswered items and
\* scenarios 2 and 3 count neither in the sum nor in the count), and the
\* global score is the weighted mean over the categories with a numeric
\* weight and a score, or the unweighted mean when no category has a weight.
C6_Aggregate ==
    session_sc # <<>> =>
        LET sc == session_sc[1]
            P == {m \in Materias : MAT_PESO(m) # <<>> /\ sc.mat_sc[m] # <<>>}
            V == {m \in Materias : sc.mat_sc[m] # <<>>}
        IN  /\ \A m \in Materias :
                 LET S == ScoredItems(sc, m)
                 IN  IF S = {} THEN sc.mat_sc[m] = <<>>
                     ELSE /\ sc.mat_sc[m] # <<>>
                          /\ Nearest(sc.mat_sc[m][1],
                                     SumOver(S, [it \in S |-> sc.it_sc[it][1]]), Cardinality(S))
            /\ P # {} =>
                 /\ ~sc.glob_sc.nan
                 /\ Nearest(sc.glob_sc.v,
                            SumOver(P, [m \in P |-> sc.mat_sc[m][1] * MAT_PESO(m)[1]]),
                            SumOver(P, [m \in P |-> MAT_PESO(m)[1]]))
            /\ ((\A m \in Materias : MAT_PESO(m) = <<>>) /\ V # {}) =>
                 /\ ~sc.glob_sc.nan
                 /\ Nearest(sc.glob_sc.v, SumOver(V, [m \in V |-> sc.mat_sc[m][1]]),
                            Cardinality(V))

\* ----- C7
\* C7: when a saved item is opened again, the form shows the stored
\* scenario, general answers and specific answers, and submitting it as it
\* stands stores the same record.
C7_RoundTrip ==
    (click.button \in {BtnAnterior, BtnSiguiente} /\ cur \in DOMAIN answers) =>
        LET r == answers[cur]
            f == form(cur, r, widgets)
        IN  /\ widgets.esc = r.scenario
            /\ <<widgets.disp, widgets.act, widgets.comp>> = r.gen
            /\ widgets.spec = r.spec
            /\ submitted(answers, cur, f.esc, f.disp, f.act, f.comp, f.spec).answers = answers

C7_Witness ==
    /\ click.button = BtnAnterior
    /\ DOMAIN answers = {1, 2}
    /\ answers[cur] = ItemR(1, <<Si, Si, NPD>>, <<No>>)
    /\ widgets.comp = NPD
    /\ widgets.spec = <<No>>

\* ----- C8
\* C8 as stated: every export request made before any compute is answered
\* by the warning, and no report exists without a compute.
C8_ExportWarns ==
    /\ (click.button = BtnExportar /\ session_sc = <<>>) => (msg = MsgCalcula /\ doc = <<>>)
    /\ doc # <<>> => session_sc # <<>>

C8_State ==
    /\ (click.button = BtnExportar /\ session_sc = <<>>) =>
          /\ doc = <<>>
          /\ click.named => msg = MsgCalcula
          /\ ~click.named => msg = ""
    /\ doc # <<>> => (session_sc # <<>> /\ click.button = BtnExportar /\ click.named)

\* C8 amended: an export request made before any compute generates no
\* document; it is answered by the warning when both names are filled in and
\* is ignored without a message otherwise; the scores of the session are
\* written by compute runs only, and no report exists without them.
C8_ExportGuard ==
    [](C8_State) /\ [][session_sc' # session_sc => click'.button = BtnCalcular]_vars

C8_Witness ==
    /\ click = Click(BtnExportar, TRUE)
    /\ session_sc = <<>>
    /\ msg = MsgCalcula
    /\ DOMAIN answers = {1}

\* ----- C9
\* C9: every stored record has the shape of its branch, and its specific
\* list is no longer than the item's list of indicators.
C9_Shape ==
    \A it \in DOMAIN answers :
        LET r == answers[it]
        IN  /\ r.scenario \in 1..5
            /\ r.scenario \in 2..5 => (r.gen = <<None, None, None>> /\ r.spec = <<>>)
            /\ (r.scenario = 1 /\ r.gen[1] = No) =>
                  (r.gen[2] = None /\ r.gen[3] = None /\ r.spec = <<>>)
            /\ (r.scenario = 1 /\ r.gen[1] = Si /\ r.gen[2] = No) =>
                  (r.gen[3] = None /\ r.spec = <<>>)
            /\ r.spec # <<>> =>
                  (r.scenario = 1 /\ r.gen[1] = Si /\ r.gen[2] = Si /\ r.gen[3] # None)
            /\ Len(r.spec) <= IND_ESP(it)

C9_Witness ==
    /\ DOMAIN answers = {1, 2}
    /\ answers[1] = ItemR(1, <<Si, Si, No>>, <<NoAplica>>)
    /\ answers[2] = ItemR(1, <<No, None, None>>, <<>>)

\* ----- C10
NoteKey(n) ==
    (CASE n.tipo = "ESC_D" -> 0 [] n.tipo = "GEN_DESC" -> 10 [] n.tipo = "IND_ESP" -> 20) + n.ref

NotesOf(r) ==
    {[tipo |-> "ESC_D", ref |-> e] : e \in {r.scenario} \cap {4, 5}}
    \cup {[tipo |-> "GEN_DESC", ref |-> k] : k \in {j \in 1..3 : r.gen[j] \in {No, NPD}}}
    \cup {[tipo |-> "IND_ESP", ref |-> k] : k \in {j \in 1..Len(r.spec) : r.spec[j] = No}}

\* C10: the notes of an item in a report are exactly: the scenario label
\* for scenario 4 or 5, then one note per general answer No or Cannot be
\* determined in the order availability, currency, completeness, then one
\* note per specific answer No in positional order, each naming the
\* indicator at its position; nothing for an item without a record.
C10_Notes ==
    doc # <<>> =>
        \A it \in ItemIds :
            LET n == doc[1].infr[it]
                E == IF it \in DOMAIN answers THEN NotesOf(answers[it]) ELSE {}
            IN  /\ Range(n) = E
                /\ Len(n) = Cardinality(E)
                /\ \A i, j \in 1..Len(n) : i < j => NoteKey(n[i]) < NoteKey(n[j])

C10_Witness ==
    /\ doc # <<>>
    /\ 1 \in DOMAIN answers
    /\ 2 \notin DOMAIN answers
    /\ answers[1] = ItemR(1, <<Si, Si, NPD>>, <<No, No>>)
    /\ Len(doc[1].infr[1]) = 3
    /\ doc[1].infr[2] = <<>>

====
